---- MODULE Spec2Model ----
(***************************************************************************)
(* State-machine model of the score aggregation core of the grading-sheet  *)
(* OCR tool: DataAggregator (src/src/data_aggregator.py).                  *)
(*                                                                         *)
(* Python values are modelled as follows:                                  *)
(*   None / an absent dict key   <<>>            (None)                    *)
(*   a present value v           <<v>>           (Some(v))                 *)
(*   the defaultdict             a sequence of entries in insertion order, *)
(*                               each entry carrying its key (student_id)  *)
(*   a raised exception          ret.raised = Some("<exception name>")     *)
(***************************************************************************)
EXTENDS Integers, Sequences, FiniteSets, TLC

VARIABLES
    master_list,      \* the constructor argument (None, or Some(students))
    student_scores,   \* self.student_scores, in dict insertion order
    processed_files,  \* self.processed_files
    has_master_list,  \* self.has_master_list
    call,             \* the last call made on the aggregator and what it returned/logged
    offered,          \* documents and observations offered to the aggregator so far
    replay,           \* the document list and position of a batch/clear/batch replay run
    snapshot,         \* the list a caller keeps from get_aggregated_data
    script            \* the run of a program part outside the aggregator (fn names it:
                      \* calculate_final_scores.py, CSVWriter.write, extract_from_pdf,
                      \* main): its input, its position and its result

vars == <<master_list, student_scores, processed_files, has_master_list, call, offered, replay,
          snapshot, script>>

-----------------------------------------------------------------------------
(* Bounds of the model *)

\* documents offered to one aggregator over a run
MaxDocs == 2
\* observations offered to one aggregator over a run
MaxTotalObs == 3
\* scores handed to one calculate_trimmed_mean call
MaxScores == 4
\* data rows of the CSV file that process_csv reads
MaxRows == 2
\* score cells (fourth column onward) of the file, all rows together
MaxScoreCells == 4
\* entities in the list handed to CSVWriter.write
MaxEntities == 2
\* PDF files handed to one batch_extract call
MaxPdfs == 3

-----------------------------------------------------------------------------
(* Python values *)

None == <<>>
Some(v) == <<v>>

\* f"order_{order}"
OrderKey(order) == "order_" \o ToString(order)

-----------------------------------------------------------------------------
(* Inputs *)

Observation(student_id, order, name, score) ==
    [student_id |-> student_id, order |-> order, name |-> name, score |-> score]

\* The score observations an OCR response can carry (any field may be null or
\* missing, the response is not validated).
ObsPool ==
    { Observation(None, Some(1), None, Some(7)),          \* masked sheet: order and score only
      Observation(None, None, None, Some(8)),             \* neither student_id nor order
      Observation(Some("s1"), Some(1), Some("A"), Some(7)),
      Observation(Some("s1"), None, Some("B"), None),     \* no order, other name, illegible score
      Observation(Some("s3"), Some(2), Some("B"), Some(9)) }  \* a student no roster lists

\* the name of the k-th document offered: every scanned PDF has its own name
FileName(k) == "f" \o ToString(k) \o ".pdf"

\* all sequences over S of length at most n
SeqsUpTo(S, n) == UNION { [1..m -> S] : m \in 0..n }

Document(file_name, success, scores) ==
    [file_name |-> file_name, success |-> success, scores |-> scores]

\* successful documents named f with at most n observations
GoodDocs(f, n) == { Document(f, Some(TRUE), s) : s \in SeqsUpTo(ObsPool, n) }

\* failed documents named f: success false, or no success key at all
BadDocs(f) == { Document(f, su, <<>>) : su \in {Some(FALSE), None} }

\* master_list arguments: none, a roster with no student, a roster of two
Students ==
    << [order |-> 1, student_id |-> "s1", name |-> "A"],
       [order |-> 2, student_id |-> "s2", name |-> "B"] >>

MasterLists == { None, Some(<<>>), Some(Students) }

-----------------------------------------------------------------------------
(* The defaultdict self.student_scores *)

\* the default factory
NewEntry(key) == [student_id |-> key, order |-> None, name |-> None, scores |-> <<>>]

Keys(ss) == { ss[i].student_id : i \in DOMAIN ss }

\* key in self.student_scores
Contains(ss, key) == key \in Keys(ss)

IndexOf(ss, key) == CHOOSE i \in DOMAIN ss : ss[i].student_id = key

\* self.student_scores[key]: a missing key is inserted with the default entry
GetItem(ss, key) == IF Contains(ss, key) THEN ss ELSE Append(ss, NewEntry(key))

RECURSIVE SumLen(_)
SumLen(ss) == IF ss = <<>> THEN 0 ELSE Len(Head(ss).scores) + SumLen(Tail(ss))

-----------------------------------------------------------------------------
(* DataAggregator *)

Aggregator(ss, pf, hml) ==
    [student_scores |-> ss, processed_files |-> pf, has_master_list |-> hml]

RECURSIVE LoadStudents(_, _)
LoadStudents(ss, students) ==
    IF students = <<>> THEN ss
    ELSE LET student == Head(students)
             key == Some(student.student_id)
             s1 == GetItem(ss, key)
             i == IndexOf(s1, key)
         IN LoadStudents([s1 EXCEPT ![i].order = Some(student.order),
                                     ![i].name = Some(student.name)],
                         Tail(students))

\* _load_master_list
LoadMasterList(self, ml) ==
    [self EXCEPT !.student_scores = LoadStudents(self.student_scores, ml),
                 !.has_master_list = TRUE]

\* __init__: "if master_list:" holds for any dict that has a 'students' key
Construct(ml) ==
    LET self == Aggregator(<<>>, <<>>, FALSE)
    IN IF ml # None THEN LoadMasterList(self, ml[1]) ELSE self

\* PrivacyBranch with the score stored in place of the list instead of appended
PrivacyBranchOverwriting(acc, score_data) ==
    LET key == Some(OrderKey(score_data.order[1]))
        s1 == GetItem(acc.student_scores, key)
        i == IndexOf(s1, key)
        s2 == IF s1[i].order = None
              THEN [s1 EXCEPT ![i].order = score_data.order, ![i].name = None]
              ELSE s1
    IN [acc EXCEPT !.student_scores = [s2 EXCEPT ![i].scores = <<score_data.score>>],
                   !.matched_count = @ + 1]

\* lines 91-100: no student_id but an order
PrivacyBranch(acc, score_data) ==
    LET key == Some(OrderKey(score_data.order[1]))
        s1 == GetItem(acc.student_scores, key)
        i == IndexOf(s1, key)
        s2 == IF s1[i].order = None
              THEN [s1 EXCEPT ![i].order = score_data.order, ![i].name = None]
              ELSE s1
    IN [acc EXCEPT !.student_scores = [s2 EXCEPT ![i].scores = Append(@, score_data.score)],
                   !.matched_count = @ + 1]

\* lines 110-119: the entry is keyed by student_id as given (None included)
OpenBranch(acc, score_data) ==
    LET key == score_data.student_id
        s1 == GetItem(acc.student_scores, key)
        i == IndexOf(s1, key)
        s2 == IF s1[i].order = None
              THEN [s1 EXCEPT ![i].order = score_data.order, ![i].name = score_data.name]
              ELSE s1
    IN [acc EXCEPT !.student_scores = [s2 EXCEPT ![i].scores = Append(@, score_data.score)],
                   !.matched_count = @ + 1]

\* RosterBranch with the roster test lost: an unknown student is taken in
RosterBranchCreating(acc, score_data) ==
    IF Contains(acc.student_scores, score_data.student_id)
    THEN LET i == IndexOf(acc.student_scores, score_data.student_id)
         IN [acc EXCEPT !.student_scores[i].scores = Append(@, score_data.score),
                        !.matched_count = @ + 1]
    ELSE OpenBranch(acc, score_data)

\* lines 102-109: a roster is loaded and only scores are taken
RosterBranch(acc, score_data) ==
    IF Contains(acc.student_scores, score_data.student_id)
    THEN LET i == IndexOf(acc.student_scores, score_data.student_id)
         IN [acc EXCEPT !.student_scores[i].scores = Append(@, score_data.score),
                        !.matched_count = @ + 1]
    ELSE [acc EXCEPT !.unmatched_count = @ + 1]

\* MergeScoreData without the roster branch
MergeScoreDataNoRoster(acc, score_data, scores_only, hml) ==
    IF score_data.student_id = None /\ score_data.order # None
    THEN PrivacyBranch(acc, score_data)
    ELSE OpenBranch(acc, score_data)

\* the body of the loop over data['scores'], lines 86-119
MergeScoreData(acc, score_data, scores_only, hml) ==
    IF score_data.student_id = None /\ score_data.order # None
    THEN PrivacyBranch(acc, score_data)
    ELSE IF scores_only /\ hml
         THEN RosterBranch(acc, score_data)
         ELSE OpenBranch(acc, score_data)

\* MergeScores leaving the loop at an observation without student_id and order
RECURSIVE MergeScoresStopping(_, _, _, _)
MergeScoresStopping(acc, scores, scores_only, hml) ==
    IF scores = <<>> THEN acc
    ELSE IF Head(scores).student_id = None /\ Head(scores).order = None
         THEN [acc EXCEPT !.unmatched_count = @ + 1]
         ELSE MergeScoresStopping(MergeScoreData(acc, Head(scores), scores_only, hml),
                                  Tail(scores), scores_only, hml)

RECURSIVE MergeScores(_, _, _, _)
MergeScores(acc, scores, scores_only, hml) ==
    IF scores = <<>> THEN acc
    ELSE MergeScores(MergeScoreData(acc, Head(scores), scores_only, hml),
                     Tail(scores), scores_only, hml)

\* Succeeded with a missing success key read as success
SucceededUnlessFalse(ocr_result) == ocr_result.success # Some(FALSE)

\* ocr_result.get('success', False)
Succeeded(ocr_result) == ocr_result.success = Some(TRUE)

\* AddOcrResult recording the file name of a failed document too
AddOcrResultLoggingFailed(self, ocr_result, scores_only) ==
    IF ~Succeeded(ocr_result)
    THEN [self |-> [self EXCEPT !.processed_files = Append(@, ocr_result.file_name)],
          ret |-> FALSE, matched_count |-> 0, unmatched_count |-> 0]
    ELSE LET so == IF scores_only = None THEN self.has_master_list ELSE scores_only[1]
             acc == MergeScores([student_scores |-> self.student_scores,
                                 matched_count |-> 0, unmatched_count |-> 0],
                                ocr_result.scores, so, self.has_master_list)
         IN [self |-> [self EXCEPT !.student_scores = acc.student_scores,
                                   !.processed_files = Append(@, ocr_result.file_name)],
             ret |-> TRUE,
             matched_count |-> acc.matched_count,
             unmatched_count |-> acc.unmatched_count]

\* add_ocr_result; scores_only is None (default) or Some(bool)
AddOcrResult(self, ocr_result, scores_only) ==
    IF ~Succeeded(ocr_result)
    THEN [self |-> self, ret |-> FALSE, matched_count |-> 0, unmatched_count |-> 0]
    ELSE LET so == IF scores_only = None THEN self.has_master_list ELSE scores_only[1]
             acc == MergeScores([student_scores |-> self.student_scores,
                                 matched_count |-> 0, unmatched_count |-> 0],
                                ocr_result.scores, so, self.has_master_list)
         IN [self |-> [self EXCEPT !.student_scores = acc.student_scores,
                                   !.processed_files = Append(@, ocr_result.file_name)],
             ret |-> TRUE,
             matched_count |-> acc.matched_count,
             unmatched_count |-> acc.unmatched_count]

\* BatchAddResults walking the list from its end
RECURSIVE BatchAddResultsReversed(_, _)
BatchAddResultsReversed(self, ocr_results) ==
    IF ocr_results = <<>> THEN [self |-> self, ret |-> 0]
    ELSE LET n == Len(ocr_results)
             r == AddOcrResult(self, ocr_results[n], None)
             rest == BatchAddResultsReversed(r.self, SubSeq(ocr_results, 1, n - 1))
         IN [self |-> rest.self, ret |-> (IF r.ret THEN 1 ELSE 0) + rest.ret]

\* batch_add_results
RECURSIVE BatchAddResults(_, _)
BatchAddResults(self, ocr_results) ==
    IF ocr_results = <<>> THEN [self |-> self, ret |-> 0]
    ELSE LET r == AddOcrResult(self, Head(ocr_results), None)
             rest == BatchAddResults(r.self, Tail(ocr_results))
         IN [self |-> rest.self, ret |-> (IF r.ret THEN 1 ELSE 0) + rest.ret]

\* clear
Clear(self) == [self EXCEPT !.student_scores = <<>>, !.processed_files = <<>>]


\* the list built by lines 168-175, one dict per entry in dict order
ToList(ss) ==
    [i \in DOMAIN ss |-> [student_id |-> ss[i].student_id, order |-> ss[i].order,
                          name |-> ss[i].name, scores |-> ss[i].scores]]

\* InsertByOrder with x placed in front of the elements of equal order
RECURSIVE InsertByOrderBeforeTies(_, _)
InsertByOrderBeforeTies(sorted, x) ==
    IF sorted = <<>> THEN <<x>>
    ELSE IF x.order[1] <= Head(sorted).order[1]
         THEN <<x>> \o sorted
         ELSE <<Head(sorted)>> \o InsertByOrderBeforeTies(Tail(sorted), x)

\* x placed behind every element whose order is not greater (list.sort is stable)
RECURSIVE InsertByOrder(_, _)
InsertByOrder(sorted, x) ==
    IF sorted = <<>> THEN <<x>>
    ELSE IF x.order[1] < Head(sorted).order[1]
         THEN <<x>> \o sorted
         ELSE <<Head(sorted)>> \o InsertByOrder(Tail(sorted), x)

RECURSIVE StableSort(_, _)
StableSort(sorted, data) ==
    IF data = <<>> THEN sorted
    ELSE StableSort(InsertByOrder(sorted, Head(data)), Tail(data))

\* data.sort(key=lambda x: x['order']): every element of a list of two or more
\* takes part in a comparison, and "<" with a None operand raises TypeError
SortByOrder(data) ==
    IF Len(data) >= 2 /\ \E i \in DOMAIN data : data[i].order = None
    THEN [raised |-> Some("TypeError"), value |-> <<>>]
    ELSE [raised |-> None, value |-> StableSort(<<>>, data)]

\* GetAggregatedData sorting the aggregator's own entries instead of a copy
GetAggregatedDataInPlace(self, sort_by_order) ==
    LET r == SortByOrder(ToList(self.student_scores))
    IN IF sort_by_order /\ r.raised = None
       THEN [self |-> [self EXCEPT !.student_scores = r.value], ret |-> r]
       ELSE [self |-> self,
             ret |-> IF sort_by_order THEN r
                     ELSE [raised |-> None, value |-> ToList(self.student_scores)]]

\* get_aggregated_data
GetAggregatedData(self, sort_by_order) ==
    [self |-> self,
     ret |-> IF sort_by_order THEN SortByOrder(ToList(self.student_scores))
             ELSE [raised |-> None, value |-> ToList(self.student_scores)]]

\* GetStatistics counting the entities that have any score at all
GetStatisticsCountingScored(self) ==
    LET total_students == Len(self.student_scores)
        total_files == Len(self.processed_files)
        with_all == Cardinality({ i \in DOMAIN self.student_scores :
                                    Len(self.student_scores[i].scores) >= 1 })
    IN [self |-> self,
        ret |-> [raised |-> None,
                 value |-> IF total_students = 0
                           THEN [total_students |-> 0, total_files |-> 0,
                                 avg_scores_per_student |-> 0,
                                 students_with_all_scores |-> 0,
                                 processed_files |-> None]
                           ELSE [total_students |-> total_students,
                                 total_files |-> total_files,
                                 avg_scores_per_student |-> 0,
                                 students_with_all_scores |-> with_all,
                                 processed_files |-> Some(self.processed_files)]]]

\* round(num / den, 0) with ties to the even neighbour, den > 0, num >= 0
RoundHalfEven(num, den) ==
    LET q == num \div den
        r == num % den
    IN IF 2 * r < den THEN q
       ELSE IF 2 * r > den THEN q + 1
       ELSE IF q % 2 = 0 THEN q ELSE q + 1

\* get_statistics; avg_scores_per_student is held in hundredths
GetStatistics(self) ==
    LET total_students == Len(self.student_scores)
        total_files == Len(self.processed_files)
        with_all == Cardinality({ i \in DOMAIN self.student_scores :
                                    Len(self.student_scores[i].scores) = total_files })
    IN [self |-> self,
        ret |-> [raised |-> None,
                 value |-> IF total_students = 0
                           THEN [total_students |-> 0, total_files |-> 0,
                                 avg_scores_per_student |-> 0,
                                 students_with_all_scores |-> 0,
                                 processed_files |-> None]
                           ELSE [total_students |-> total_students,
                                 total_files |-> total_files,
                                 avg_scores_per_student |->
                                     RoundHalfEven(100 * SumLen(self.student_scores),
                                                   total_students),
                                 students_with_all_scores |-> with_all,
                                 processed_files |-> Some(self.processed_files)]]]

-----------------------------------------------------------------------------
(* calculate_final_scores.py *)

\* A float is held as the exact fraction num/den (den > 0); the scores are
\* whole numbers, a trim_percent is the fraction p/q.
Fraction(num, den) == [num |-> num, den |-> den]

RECURSIVE Sum(_)
Sum(scores) == IF scores = <<>> THEN 0 ELSE Head(scores) + Sum(Tail(scores))

RECURSIVE InsertScore(_, _)
InsertScore(sorted, x) ==
    IF sorted = <<>> THEN <<x>>
    ELSE IF x < Head(sorted) THEN <<x>> \o sorted
         ELSE <<Head(sorted)>> \o InsertScore(Tail(sorted), x)

\* sorted(scores)
RECURSIVE Sorted(_)
Sorted(scores) ==
    IF scores = <<>> THEN <<>>
    ELSE InsertScore(Sorted(Tail(scores)), Head(scores))

\* int(n * trim_percent), trim_percent = p/q >= 0
TrimCount(n, p, q) == (n * p) \div q

\* TrimSlice dropping the lowest scores only
TrimSliceLowOnly(sorted_scores, trim_count) ==
    LET n == Len(sorted_scores)
        start == IF trim_count < n THEN trim_count ELSE n
    IN IF start < n THEN SubSeq(sorted_scores, start + 1, n) ELSE <<>>

\* sorted_scores[trim_count:-trim_count] for trim_count > 0: both indices are
\* clipped to the list, an empty range gives the empty list
TrimSlice(sorted_scores, trim_count) ==
    LET n == Len(sorted_scores)
        start == IF trim_count < n THEN trim_count ELSE n
        stop == IF n - trim_count > 0 THEN n - trim_count ELSE 0
    IN IF start < stop THEN SubSeq(sorted_scores, start + 1, stop) ELSE <<>>

\* CalculateTrimmedMean dividing by the number of all scores
CalculateTrimmedMeanOverAll(scores, p, q) ==
    IF scores = <<>> THEN Fraction(0, 1)
    ELSE LET sorted_scores == Sorted(scores)
             n == Len(sorted_scores)
             trim_count == TrimCount(n, p, q)
             sliced == IF trim_count > 0 THEN TrimSlice(sorted_scores, trim_count)
                       ELSE sorted_scores
             trimmed_scores == IF sliced = <<>> THEN sorted_scores ELSE sliced
         IN Fraction(Sum(trimmed_scores), n)

\* calculate_trimmed_mean(scores, trim_percent = p/q)
CalculateTrimmedMean(scores, p, q) ==
    IF scores = <<>> THEN Fraction(0, 1)
    ELSE LET sorted_scores == Sorted(scores)
             n == Len(sorted_scores)
             trim_count == TrimCount(n, p, q)
             sliced == IF trim_count > 0 THEN TrimSlice(sorted_scores, trim_count)
                       ELSE sorted_scores
             trimmed_scores == IF sliced = <<>> THEN sorted_scores ELSE sliced
         IN Fraction(Sum(trimmed_scores), Len(trimmed_scores))

\* A CSV cell is the sequence of its characters.
Digits == {"1", "2", "6", "7"}

DigitValue(c) == CASE c = "1" -> 1 [] c = "2" -> 2 [] c = "6" -> 6 [] c = "7" -> 7

\* str.strip(): the cell without its leading and trailing blanks
RECURSIVE Strip(_)
Strip(cell) ==
    IF cell = <<>> THEN <<>>
    ELSE IF Head(cell) = " " THEN Strip(Tail(cell))
    ELSE IF cell[Len(cell)] = " " THEN Strip(SubSeq(cell, 1, Len(cell) - 1))
    ELSE cell

RECURSIVE DecimalValue(_, _)
DecimalValue(acc, chars) ==
    IF chars = <<>> THEN acc
    ELSE DecimalValue(10 * acc + DigitValue(Head(chars)), Tail(chars))

\* float(text) / int(text) of a text made of blanks, digits and letters: the
\* number written, blanks around it ignored; None stands for ValueError
ParseNumber(text) ==
    LET chars == Strip(text)
    IN IF chars # <<>> /\ \A i \in DOMAIN chars : chars[i] \in Digits
       THEN Some(DecimalValue(0, chars))
       ELSE None

\* CollectScore reading an empty cell as the score 0
CollectScoreEmptyAsZero(scores, cell) ==
    IF cell # <<>> /\ Strip(cell) # <<>>
    THEN IF ParseNumber(cell) # None THEN Append(scores, ParseNumber(cell)[1]) ELSE scores
    ELSE Append(scores, 0)

\* lines 70-75: one cell of the fourth column onward
CollectScore(scores, cell) ==
    IF cell # <<>> /\ Strip(cell) # <<>>
    THEN IF ParseNumber(cell) # None THEN Append(scores, ParseNumber(cell)[1]) ELSE scores
    ELSE scores

\* round(trimmed_mean * 10): Python rounds an exact half to the even neighbour
FinalScore(trimmed_mean) == RoundHalfEven(10 * trimmed_mean.num, trimmed_mean.den)

\* lines 78-88: the result of a row whose score cells are all read
RowResult(order, scores) ==
    LET trimmed_mean == CalculateTrimmedMean(scores, 1, 10)
    IN [order |-> order, score_count |-> Len(scores),
        trimmed_mean |-> trimmed_mean, final_score |-> FinalScore(trimmed_mean)]

RECURSIVE InsertResult(_, _)
InsertResult(sorted, r) ==
    IF sorted = <<>> THEN <<r>>
    ELSE IF r.order < Head(sorted).order THEN <<r>> \o sorted
         ELSE <<Head(sorted)>> \o InsertResult(Tail(sorted), r)

\* results.sort(key=lambda x: x['order'])
RECURSIVE SortResults(_, _)
SortResults(sorted, results) ==
    IF results = <<>> THEN sorted
    ELSE SortResults(InsertResult(sorted, Head(results)), Tail(results))

\* lines 98-105: the rows written under the header
OutputRows(results) ==
    LET sorted == SortResults(<<>>, results)
    IN [i \in DOMAIN sorted |-> <<sorted[i].order, sorted[i].final_score>>]

-----------------------------------------------------------------------------
(* csv_writer.py *)

\* A cell as csv.writer writes it: '' for None, str(value) for a number, the
\* text itself for a string.
NumberCell(v) == IF v = None THEN "" ELSE ToString(v[1])

TextCell(v) == IF v = None THEN "" ELSE v[1]

\* ScoreCell leaving out every score that is not truthy
ScoreCellIfTruthy(s) == IF s = None \/ s = Some(0) THEN "" ELSE NumberCell(s)

\* line 69: s if s is not None else ''
ScoreCell(s) == IF s # None THEN NumberCell(s) ELSE ""

\* line 46: max(len(student['scores']) for student in data), data not empty
MaxScoresOf(data) ==
    CHOOSE m \in { Len(data[i].scores) : i \in DOMAIN data } :
        \A i \in DOMAIN data : Len(data[i].scores) <= m

\* lines 49-50; the texts stand for '報告順序', '學號', '姓名' and the
\* score_column_prefix '評分'
Headers(max_scores) ==
    <<"order", "student_id", "name">> \o [i \in 1..max_scores |-> "score" \o ToString(i)]

\* StudentRow without the padding of lines 72-73
StudentRowUnpadded(student, max_scores) ==
    <<NumberCell(student.order), TextCell(student.student_id), TextCell(student.name)>>
        \o [i \in DOMAIN student.scores |-> ScoreCell(student.scores[i])]

\* lines 61-73
StudentRow(student, max_scores) ==
    <<NumberCell(student.order), TextCell(student.student_id), TextCell(student.name)>>
        \o [i \in DOMAIN student.scores |-> ScoreCell(student.scores[i])]
        \o (IF Len(student.scores) < max_scores
            THEN [i \in 1..(max_scores - Len(student.scores)) |-> ""]
            ELSE <<>>)

\* Write putting a bare header into the file for an empty list
WriteHeaderForNothing(file, data, writable) ==
    IF ~writable THEN [file |-> file, ret |-> FALSE]
    ELSE IF data = <<>> THEN [file |-> Some(<<Headers(0)>>), ret |-> TRUE]
    ELSE LET max_scores == MaxScoresOf(data)
         IN [file |-> Some(<<Headers(max_scores)>>
                            \o [i \in DOMAIN data |-> StudentRow(data[i], max_scores)]),
             ret |-> TRUE]

\* CSVWriter.write; file is the output file before the call (None: it does
\* not exist, else its rows); open() raises OSError when the path is not
\* writable, which the except clause of line 83 turns into False
Write(file, data, writable) ==
    IF data = <<>> THEN [file |-> file, ret |-> FALSE]
    ELSE IF ~writable THEN [file |-> file, ret |-> FALSE]
    ELSE LET max_scores == MaxScoresOf(data)
         IN [file |-> Some(<<Headers(max_scores)>>
                            \o [i \in DOMAIN data |-> StudentRow(data[i], max_scores)]),
             ret |-> TRUE]

-----------------------------------------------------------------------------
(* The state machine *)

Self == Aggregator(student_scores, processed_files, has_master_list)

Call(op, docs, scores_only, sort_by_order, ret, matched, unmatched) ==
    [op |-> op, docs |-> docs, scores_only |-> scores_only,
     sort_by_order |-> sort_by_order, ret |-> ret,
     matched_count |-> matched, unmatched_count |-> unmatched,
     \* the call repeats the call before it (same query, same argument)
     again |-> FALSE]

Returned(v) == [raised |-> None, value |-> v]

NoReplay == [phase |-> 0, docs |-> <<>>]

\* the caller keeps no returned list
NoSnapshot == [held |-> FALSE, live |-> FALSE, taken |-> <<>>, now |-> <<>>]

\* calculate_final_scores.py is not run
NoScript == [fn |-> "none"]

\* what the aggregator's methods never touch
outside == <<snapshot, script>>

\* the state after DataAggregator(master_list)
InitAggregator ==
    /\ master_list \in MasterLists
    /\ LET self == Construct(master_list)
       IN /\ student_scores = self.student_scores
          /\ processed_files = self.processed_files
          /\ has_master_list = self.has_master_list
    /\ call = Call("__init__", <<>>, None, FALSE, Returned(0), 0, 0)

Init ==
    /\ InitAggregator
    /\ offered = [docs |-> 0, obs |-> 0]
    /\ replay = NoReplay
    /\ snapshot = NoSnapshot
    /\ script = NoScript

SetSelf(self) ==
    /\ student_scores' = self.student_scores
    /\ processed_files' = self.processed_files
    /\ has_master_list' = self.has_master_list

\* the documents that can be offered as the k-th, with at most n observations
Docs(k, n) == BadDocs(FileName(k)) \cup GoodDocs(FileName(k), n)

RECURSIVE SumTo(_, _)
SumTo(lens, i) == IF i = 0 THEN 0 ELSE lens[i] + SumTo(lens, i - 1)

\* the document list whose i-th document is offered as the (k+i)-th, has the
\* success flag flags[i] and carries the next lens[i] observations of obs
MakeDocs(k, flags, lens, obs) ==
    [i \in DOMAIN flags |->
        Document(FileName(k + i), flags[i],
                 SubSeq(obs, SumTo(lens, i - 1) + 1, SumTo(lens, i)))]

RECURSIVE CountObs(_)
CountObs(docs) == IF docs = <<>> THEN 0 ELSE Len(Head(docs).scores) + CountObs(Tail(docs))

Offer(docs) ==
    offered' = [docs |-> offered.docs + Len(docs), obs |-> offered.obs + CountObs(docs)]

DoAddOcrResult(ocr_result, scores_only) ==
    LET r == AddOcrResult(Self, ocr_result, scores_only)
    IN /\ SetSelf(r.self)
       /\ call' = Call("add_ocr_result", <<ocr_result>>, scores_only, FALSE,
                       Returned(r.ret), r.matched_count, r.unmatched_count)
       /\ Offer(<<ocr_result>>)
       /\ UNCHANGED master_list

DoBatchAddResults(ocr_results) ==
    LET r == BatchAddResults(Self, ocr_results)
    IN /\ SetSelf(r.self)
       /\ call' = Call("batch_add_results", ocr_results, None, FALSE,
                       Returned(r.ret), 0, 0)
       /\ Offer(ocr_results)
       /\ UNCHANGED master_list

DoGetAggregatedData(sort_by_order) ==
    LET r == GetAggregatedData(Self, sort_by_order)
    IN /\ SetSelf(r.self)
       /\ call' = [Call("get_aggregated_data", <<>>, None, sort_by_order, r.ret, 0, 0)
                      EXCEPT !.again = (call.op = "get_aggregated_data"
                                        /\ call.sort_by_order = sort_by_order)]
       /\ UNCHANGED <<master_list, offered>>

DoGetStatistics ==
    LET r == GetStatistics(Self)
    IN /\ SetSelf(r.self)
       /\ call' = Call("get_statistics", <<>>, None, FALSE, r.ret, 0, 0)
       /\ UNCHANGED <<master_list, offered>>

DoClear ==
    /\ SetSelf(Clear(Self))
    /\ call' = Call("clear", <<>>, None, FALSE, Returned(0), 0, 0)
    /\ UNCHANGED <<master_list, offered>>

AddStep ==
    /\ offered.docs < MaxDocs
    /\ \E d \in Docs(offered.docs + 1, MaxTotalObs - offered.obs) :
           \* scores_only: left out, or False (True acts like the default in
           \* either configuration: line 102 also tests has_master_list)
           \E so \in {None, Some(FALSE)} :
               DoAddOcrResult(d, so) /\ UNCHANGED <<replay, outside>>

BatchStep ==
    \E n \in 0..(MaxDocs - offered.docs) :
        \E flags \in [1..n -> {Some(TRUE), Some(FALSE), None}] :
            \E lens \in [1..n -> 0..(MaxTotalObs - offered.obs)] :
                /\ \A i \in 1..n : flags[i] # Some(TRUE) => lens[i] = 0
                /\ SumTo(lens, n) <= MaxTotalObs - offered.obs
                /\ \E obs \in [1..SumTo(lens, n) -> ObsPool] :
                       /\ DoBatchAddResults(MakeDocs(offered.docs, flags, lens, obs))
                       /\ UNCHANGED <<replay, outside>>

GetStep == \E sort_by_order \in BOOLEAN : DoGetAggregatedData(sort_by_order) /\ UNCHANGED <<replay, outside>>

StatsStep == DoGetStatistics /\ UNCHANGED <<replay, outside>>

ClearStep == DoClear /\ UNCHANGED <<replay, outside>>

Next == AddStep \/ GetStep \/ StatsStep \/ ClearStep

\* documents merged one at a time, queries and clear
Spec == Init /\ [][Next]_vars

NextBatch == BatchStep \/ ClearStep

\* documents merged in batches, and clear
SpecBatch == Init /\ [][NextBatch]_vars

NextMerge == BatchStep

\* documents merged in batches on one aggregator that is never cleared
SpecMerge == Init /\ [][NextMerge]_vars

\* add_ocr_result(ocr_result), scores_only left at its default
LogAddStep ==
    /\ offered.docs < MaxDocs
    /\ \E d \in Docs(offered.docs + 1, MaxTotalObs - offered.obs) :
           DoAddOcrResult(d, None) /\ UNCHANGED <<replay, outside>>

NextLog == LogAddStep \/ BatchStep \/ ClearStep

\* documents merged one at a time and in batches, and clear
SpecLog == Init /\ [][NextLog]_vars

\* one document list, merged, cleared and merged again
InitReplay ==
    /\ InitAggregator
    /\ offered = [docs |-> 0, obs |-> 0]
    /\ snapshot = NoSnapshot
    /\ script = NoScript
    /\ \E n \in 0..MaxDocs :
           \E flags \in [1..n -> {Some(TRUE), Some(FALSE), None}] :
               \E lens \in [1..n -> 0..MaxTotalObs] :
                   /\ \A i \in 1..n : flags[i] # Some(TRUE) => lens[i] = 0
                   /\ SumTo(lens, n) <= MaxTotalObs
                   /\ \E obs \in [1..SumTo(lens, n) -> ObsPool] :
                          replay = [phase |-> 0, docs |-> MakeDocs(0, flags, lens, obs)]

ReplayBatch ==
    /\ replay.phase \in {0, 2}
    /\ DoBatchAddResults(replay.docs)
    /\ replay' = [replay EXCEPT !.phase = @ + 1]
    /\ UNCHANGED outside

ReplayClear ==
    /\ replay.phase = 1
    /\ DoClear
    /\ replay' = [replay EXCEPT !.phase = 2]
    /\ UNCHANGED outside

NextReplay == ReplayBatch \/ ReplayClear

SpecReplay == InitReplay /\ [][NextReplay]_vars

\* A returned list as its holder sees it: each dict's 'scores' is the entity's
\* own list object (line 174), so what the aggregator appends to that list
\* shows in the returned list; 'order' and 'name' were copied by value.
SeenThrough(data, ss) ==
    [i \in DOMAIN data |->
        IF Contains(ss, data[i].student_id)
        THEN [data[i] EXCEPT !.scores = ss[IndexOf(ss, data[i].student_id)].scores]
        ELSE data[i]]

\* the kept list after the aggregator's entities became ss
Seen(snap, ss) ==
    IF snap.held /\ snap.live THEN [snap EXCEPT !.now = SeenThrough(snap.taken, ss)] ELSE snap

\* the caller keeps the list that get_aggregated_data returns
SnapGetStep ==
    /\ ~snapshot.held
    /\ \E sort_by_order \in BOOLEAN :
          /\ DoGetAggregatedData(sort_by_order)
          /\ snapshot' = IF call'.ret.raised = None
                         THEN [held |-> TRUE, live |-> TRUE,
                               taken |-> call'.ret.value, now |-> call'.ret.value]
                         ELSE snapshot
    /\ UNCHANGED <<replay, script>>

SnapAddStep ==
    /\ offered.docs < MaxDocs
    /\ \E d \in Docs(offered.docs + 1, MaxTotalObs - offered.obs) :
           \E so \in {None, Some(FALSE)} :
               /\ DoAddOcrResult(d, so)
               /\ snapshot' = Seen(snapshot, student_scores')
    /\ UNCHANGED <<replay, script>>

SnapBatchStep ==
    /\ \E n \in 0..(MaxDocs - offered.docs) :
        \E flags \in [1..n -> {Some(TRUE), Some(FALSE), None}] :
            \E lens \in [1..n -> 0..(MaxTotalObs - offered.obs)] :
                /\ \A i \in 1..n : flags[i] # Some(TRUE) => lens[i] = 0
                /\ SumTo(lens, n) <= MaxTotalObs - offered.obs
                /\ \E obs \in [1..SumTo(lens, n) -> ObsPool] :
                       /\ DoBatchAddResults(MakeDocs(offered.docs, flags, lens, obs))
                       /\ snapshot' = Seen(snapshot, student_scores')
    /\ UNCHANGED <<replay, script>>

\* clear empties the dict and leaves the entities' list objects as they are:
\* the kept list no longer shares anything with the aggregator
SnapClearStep ==
    /\ DoClear
    /\ snapshot' = [snapshot EXCEPT !.live = FALSE]
    /\ UNCHANGED <<replay, script>>

NextSnapshot == SnapGetStep \/ SnapAddStep \/ SnapBatchStep \/ SnapClearStep

\* a caller keeps one returned list while documents are merged and cleared
SpecSnapshot == Init /\ [][NextSnapshot]_vars

\* no aggregator is in use: the script reads a CSV file
IdleAggregator ==
    /\ master_list = None
    /\ student_scores = <<>>
    /\ processed_files = <<>>
    /\ has_master_list = FALSE
    /\ call = Call("__init__", <<>>, None, FALSE, Returned(0), 0, 0)
    /\ offered = [docs |-> 0, obs |-> 0]
    /\ replay = NoReplay
    /\ snapshot = NoSnapshot

aggregator == <<master_list, student_scores, processed_files, has_master_list, call,
                offered, replay, snapshot>>

\* the handwritten marks (1-10) that the score lists are made of
ScorePool == {1, 6, 7, 10}

\* trim_percent values p/q: none, the default 10%, and fractions that trim at
\* the lengths reached, up to everything
TrimPercents == { <<0, 1>>, <<1, 10>>, <<1, 4>>, <<1, 3>>, <<1, 2>>, <<1, 1>> }

InitTrim ==
    /\ IdleAggregator
    /\ \E scores \in SeqsUpTo(ScorePool, MaxScores) :
          \E tp \in TrimPercents :
              script = [fn |-> "calculate_trimmed_mean", scores |-> scores,
                        p |-> tp[1], q |-> tp[2], done |-> FALSE, ret |-> Fraction(0, 1)]

TrimStep ==
    /\ ~script.done
    /\ script' = [script EXCEPT !.done = TRUE,
                                !.ret = CalculateTrimmedMean(script.scores, script.p, script.q)]
    /\ UNCHANGED aggregator

NextTrim == TrimStep

\* one call of calculate_trimmed_mean
SpecTrim == InitTrim /\ [][NextTrim]_vars

\* what the cells of the score columns can hold: nothing, a blank, a word,
\* a mark, a mark behind a blank
CellPool == { <<>>, <<" ">>, <<"x">>, <<"6">>, <<"7">>, <<" ", "7">> }

\* first cells of a row: empty (the row is skipped) or the order
OrderCells == { <<>>, <<"1">>, <<"2">> }

\* process_csv has opened the file and skipped the header
InitCsv ==
    /\ IdleAggregator
    /\ script = [fn |-> "process_csv", pc |-> "next_row", nrows |-> 0,
                 read |-> 0, order |-> 0, ncells |-> 0, cell |-> <<>>, scores |-> <<>>,
                 last |-> None, results |-> <<>>, written |-> None]

\* lines 61-68: the next row; a row without an order is skipped
CsvRowStep ==
    /\ script.fn = "process_csv"
    /\ script.pc = "next_row"
    /\ script.nrows < MaxRows
    /\ \E first \in OrderCells :
          script' = IF first = <<>>
                    THEN [script EXCEPT !.nrows = @ + 1]
                    ELSE [script EXCEPT !.nrows = @ + 1, !.pc = "cells",
                                        !.order = ParseNumber(first)[1],
                                        !.ncells = 0, !.cell = <<>>, !.scores = <<>>]
    /\ UNCHANGED aggregator

\* lines 69-75: the next cell of the row
CsvCellStep ==
    /\ script.fn = "process_csv"
    /\ script.pc = "cells"
    /\ script.read < MaxScoreCells
    /\ \E cell \in CellPool :
          script' = [script EXCEPT !.read = @ + 1, !.ncells = @ + 1, !.cell = cell,
                                  !.scores = CollectScore(@, cell)]
    /\ UNCHANGED aggregator

\* lines 77-88: the row has no further cell
CsvRowDoneStep ==
    /\ script.fn = "process_csv"
    /\ script.pc = "cells"
    /\ LET r == RowResult(script.order, script.scores)
       IN script' = [script EXCEPT !.pc = "next_row",
                                   !.results = Append(@, r),
                                   !.last = Some([result |-> r, scores |-> script.scores,
                                                  ncells |-> script.ncells])]
    /\ UNCHANGED aggregator

\* lines 97-105: the file has no further row
CsvWriteStep ==
    /\ script.fn = "process_csv"
    /\ script.pc = "next_row"
    /\ script' = [script EXCEPT !.pc = "done", !.written = Some(OutputRows(script.results))]
    /\ UNCHANGED aggregator

NextCsv == CsvRowStep \/ CsvCellStep \/ CsvRowDoneStep \/ CsvWriteStep

\* one run of process_csv over a file read row by row, cell by cell
SpecCsv == InitCsv /\ [][NextCsv]_vars

\* entities as get_aggregated_data returns them: with and without identity,
\* with no score, with a null score, with a score of 0
EntityPool ==
    { [student_id |-> Some("s1"), order |-> Some(1), name |-> Some("A"),
       scores |-> <<Some(7), None, Some(0)>>],
      [student_id |-> Some("s2"), order |-> Some(2), name |-> Some("B"),
       scores |-> <<Some(0)>>],
      [student_id |-> Some("s3"), order |-> Some(3), name |-> Some("C"),
       scores |-> <<None, Some(9)>>],
      [student_id |-> Some("order_1"), order |-> Some(1), name |-> None,
       scores |-> <<>>],
      [student_id |-> None, order |-> None, name |-> None,
       scores |-> <<Some(8)>>],
      [student_id |-> Some("s4"), order |-> None, name |-> Some("B"),
       scores |-> <<None>>] }

\* the output file before the call: absent, or left by an earlier run
OldFiles == { None, Some(<<Headers(0)>>) }

InitWrite ==
    /\ IdleAggregator
    /\ \E data \in SeqsUpTo(EntityPool, MaxEntities) :
          \E file \in OldFiles :
              \E writable \in BOOLEAN :
                  script = [fn |-> "write", data |-> data, writable |-> writable,
                            before |-> file, file |-> file, done |-> FALSE, ret |-> FALSE]

WriteStep ==
    /\ script.fn = "write"
    /\ ~script.done
    /\ LET r == Write(script.file, script.data, script.writable)
       IN script' = [script EXCEPT !.done = TRUE, !.file = r.file, !.ret = r.ret]
    /\ UNCHANGED aggregator

NextWrite == WriteStep

\* one call of CSVWriter.write
SpecWrite == InitWrite /\ [][NextWrite]_vars

\* OCRExtractor.batch_extract over pdf_files f1.pdf .. fn.pdf; remote is the
\* set of files that the API holds, uploaded the file object of the call in
\* progress. What the file system and the API answer is chosen at each step.
InitExtract ==
    /\ IdleAggregator
    /\ \E n \in 0..MaxPdfs :
          script = [fn |-> "batch_extract", n |-> n, i |-> 0, pc |-> "next",
                    remote |-> {}, uploaded |-> None, results |-> <<>>]

\* the result dict of extract_from_pdf for the file in progress
ExtractReturn(success, error) ==
    [script EXCEPT !.pc = "next", !.uploaded = None,
                   !.results = Append(@, [file_name |-> FileName(script.i),
                                          success |-> success, error |-> error])]

\* lines 185-187 and 81-90: the next file; a path that does not exist is
\* answered at once
ExtractCallStep ==
    /\ script.fn = "batch_extract"
    /\ script.pc = "next"
    /\ script.i < script.n
    /\ \E exists \in BOOLEAN :
          script' = IF exists
                    THEN [script EXCEPT !.i = @ + 1, !.pc = "upload"]
                    ELSE [script EXCEPT !.i = @ + 1,
                                        !.results = Append(@, [file_name |-> FileName(script.i + 1),
                                                               success |-> FALSE,
                                                               error |-> "missing"])]
    /\ UNCHANGED aggregator

\* lines 95-103: client.files.upload stores the file, or raises
ExtractUploadStep ==
    /\ script.fn = "batch_extract"
    /\ script.pc = "upload"
    /\ \E raises \in BOOLEAN :
          script' = IF raises
                    THEN ExtractReturn(FALSE, "exception")
                    ELSE [script EXCEPT !.pc = "generate",
                                        !.remote = @ \cup {FileName(script.i)},
                                        !.uploaded = Some(FileName(script.i))]
    /\ UNCHANGED aggregator

\* lines 107-157: generate_content raises, or answers a JSON object, or a
\* text that json.loads rejects
ExtractGenerateStep ==
    /\ script.fn = "batch_extract"
    /\ script.pc = "generate"
    /\ \E response \in {"raises", "json", "not json"} :
          script' = CASE response = "raises" -> ExtractReturn(FALSE, "exception")
                      [] response = "not json" -> ExtractReturn(FALSE, "json")
                      [] response = "json" -> [script EXCEPT !.pc = "delete"]
    /\ UNCHANGED aggregator

\* lines 139-145: client.files.delete removes the file, or raises
ExtractDeleteStep ==
    /\ script.fn = "batch_extract"
    /\ script.pc = "delete"
    /\ \E raises \in BOOLEAN :
          script' = IF raises
                    THEN ExtractReturn(FALSE, "exception")
                    ELSE [ExtractReturn(TRUE, "") EXCEPT !.remote = @ \ {script.uploaded[1]}]
    /\ UNCHANGED aggregator

\* lines 190-207: every file is done; the results are counted, saved and returned
ExtractDoneStep ==
    /\ script.fn = "batch_extract"
    /\ script.pc = "next"
    /\ script.i = script.n
    /\ script' = [script EXCEPT !.pc = "done"]
    /\ UNCHANGED aggregator

NextExtract ==
    \/ ExtractCallStep
    \/ ExtractUploadStep
    \/ ExtractGenerateStep
    \/ ExtractDeleteStep
    \/ ExtractDoneStep

\* one batch_extract call, extract_from_pdf file by file
SpecExtract == InitExtract /\ [][NextExtract]_vars

\* MainResult reporting success whatever write_csv returned
MainResultAlwaysZero(success) == 0

\* main.py lines 203-217: the exit code after write_csv
MainResult(success) == IF success THEN 0 ELSE 1

\* main() of main.py; steps lists the steps begun, in order. The aggregator
\* is main's own DataAggregator(), built without master_list.
InitMain ==
    /\ IdleAggregator
    /\ \E file \in OldFiles :
          script = [fn |-> "main", pc |-> "start", steps |-> <<>>, ret |-> None,
                    api_key |-> FALSE, pdf_files |-> 0, ocr_results |-> <<>>,
                    data |-> <<>>, before |-> file, file |-> file, written |-> None]

\* return at lines 127, 145, 181, 207, 217 and 224
MainReturn(sc, code) == [sc EXCEPT !.pc = "done", !.ret = Some(code)]

\* lines 120-127: the API key from the arguments or the environment
MainKeyStep ==
    /\ script.fn = "main"
    /\ script.pc = "start"
    /\ \E api_key \in BOOLEAN :
          script' = IF api_key
                    THEN [script EXCEPT !.api_key = TRUE, !.pc = "scan"]
                    ELSE MainReturn(script, 1)
    /\ UNCHANGED aggregator

\* lines 133-147: get_pdf_list finds some files, or none, or raises
MainScanStep ==
    /\ script.fn = "main"
    /\ script.pc = "scan"
    /\ LET begun == [script EXCEPT !.steps = Append(@, "scan")]
       IN \/ \E n \in 1..MaxDocs :
                script' = [begun EXCEPT !.pdf_files = n, !.pc = "ocr"]
          \/ script' = MainReturn(begun, 1)
    /\ UNCHANGED aggregator

\* lines 149-183: batch_extract gives one result per file; no success ends the run
MainOcrStep ==
    /\ script.fn = "main"
    /\ script.pc = "ocr"
    /\ LET n == script.pdf_files
           begun == [script EXCEPT !.steps = Append(@, "ocr")]
       IN \E flags \in [1..n -> {Some(TRUE), Some(FALSE)}] :
            \E lens \in [1..n -> 0..MaxTotalObs] :
                /\ \A i \in 1..n : flags[i] # Some(TRUE) => lens[i] = 0
                /\ SumTo(lens, n) <= MaxTotalObs
                /\ \E obs \in [1..SumTo(lens, n) -> ObsPool] :
                       LET ocr_results == MakeDocs(0, flags, lens, obs)
                           got == [begun EXCEPT !.ocr_results = ocr_results]
                       IN script' = IF \E i \in 1..n : Succeeded(ocr_results[i])
                                    THEN [got EXCEPT !.pc = "aggregate"]
                                    ELSE MainReturn(got, 1)
    /\ UNCHANGED aggregator

\* lines 185-197: a new aggregator, batch_add_results, get_statistics,
\* get_aggregated_data(sort_by_order=True); an exception ends the run at
\* line 224
MainAggregateStep ==
    /\ script.fn = "main"
    /\ script.pc = "aggregate"
    /\ LET begun == [script EXCEPT !.steps = Append(@, "aggregate")]
           added == BatchAddResults(Construct(None), script.ocr_results)
           stats == GetStatistics(added.self)
           data == GetAggregatedData(added.self, TRUE).ret
       IN script' = IF stats.ret.raised # None \/ data.raised # None
                    THEN MainReturn(begun, 1)
                    ELSE [begun EXCEPT !.data = data.value, !.pc = "write"]
    /\ UNCHANGED aggregator

\* lines 199-217: write_csv and the exit code
MainWriteStep ==
    /\ script.fn = "main"
    /\ script.pc = "write"
    /\ \E writable \in BOOLEAN :
          LET begun == [script EXCEPT !.steps = Append(@, "write")]
              r == Write(script.file, script.data, writable)
          IN script' = MainReturn([begun EXCEPT !.file = r.file, !.written = Some(r.ret)],
                                  MainResult(r.ret))
    /\ UNCHANGED aggregator

NextMain == MainKeyStep \/ MainScanStep \/ MainOcrStep \/ MainAggregateStep \/ MainWriteStep

\* one run of main
SpecMain == InitMain /\ [][NextMain]_vars

-----------------------------------------------------------------------------
(* Properties *)

\* an observation of a masked sheet: an order and no student_id
IsPrivacy(o) == o.student_id = None /\ o.order # None

\* an observation with no usable identity
NoIdentity(o) == o.student_id = None /\ o.order = None

\* the document flagged as a success
Flagged(d) == d.success = Some(TRUE)

\* the orders that observations carry
PoolOrders == { o.order[1] : o \in { x \in ObsPool : x.order # None } }

Entry(ss, key) == ss[IndexOf(ss, key)]

\* the scores an aggregator holds under key (none when it has no such entity)
ScoresOf(ss, key) == IF Contains(ss, key) THEN Entry(ss, key).scores ELSE <<>>

IsPrefix(s, t) == Len(s) <= Len(t) /\ SubSeq(t, 1, Len(s)) = s

C2_Original ==
    master_list # None
        => GetStatistics(Self).ret.value.total_students = Len(master_list[1])

\* C2 (amended): with a roster loaded, after any sequence of batch_add_results
\* calls the entities are the roster's students plus one entity "order_n" for
\* each order n that a merged observation without student_id carried; no
\* observation that has a student_id adds an entity.
C2_RosterPlusOrderSlots ==
    master_list # None
        => /\ GetStatistics(Self).ret.value.total_students
                = Len(master_list[1])
                  + Cardinality({ n \in PoolOrders :
                                    Some(OrderKey(n)) \in Keys(student_scores) })
           /\ \A i \in DOMAIN master_list[1] :
                 Some(master_list[1][i].student_id) \in Keys(student_scores)

\* a batch with an unlisted student_id and a masked-sheet observation was merged
\* under the roster of two
C2_Witness ==
    /\ master_list = Some(Students)
    /\ call.op = "batch_add_results"
    /\ \E d \in DOMAIN call.docs :
          /\ Flagged(call.docs[d])
          /\ \E i \in DOMAIN call.docs[d].scores :
                call.docs[d].scores[i].student_id = Some("s3")
          /\ \E i \in DOMAIN call.docs[d].scores : IsPrivacy(call.docs[d].scores[i])
    /\ Len(student_scores) = 3

\* C3: add_ocr_result on a document whose success flag is false or absent
\* returns False and leaves the entities and processed_files unchanged.
C3_FailedDocumentSkipped ==
    [][ (call'.op = "add_ocr_result" /\ ~Flagged(call'.docs[1]))
        => /\ call'.ret = Returned(FALSE)
           /\ student_scores' = student_scores
           /\ processed_files' = processed_files
           /\ has_master_list' = has_master_list
      ]_vars

\* a document without a success key was offered to an aggregator that holds scores
C3_Witness ==
    /\ call.op = "add_ocr_result"
    /\ call.docs[1].success = None
    /\ call.ret = Returned(FALSE)
    /\ SumLen(student_scores) > 0
    /\ processed_files # <<>>

\* C4: without a roster, the order and name that the first merged
\* observation gave a student_id are never changed by a later add_ocr_result,
\* which only appends scores to that entity.
C4_FirstObservationKept ==
    [][ (call'.op = "add_ocr_result" /\ master_list = None)
        => \A i \in DOMAIN student_scores :
              LET e == student_scores[i]
              IN e.student_id # None
                    => /\ e.student_id \in Keys(student_scores')
                       /\ Entry(student_scores', e.student_id).order = e.order
                       /\ Entry(student_scores', e.student_id).name = e.name
                       /\ IsPrefix(e.scores, Entry(student_scores', e.student_id).scores)
      ]_vars

ScoreValues(scores) == [i \in DOMAIN scores |-> scores[i].score]

\* the observations of scores that have no student_id and the order n
OfOrder(scores, n) ==
    LET Test(o) == o.student_id = None /\ o.order = Some(n)
    IN SelectSeq(scores, Test)

\* C5: the observations without student_id that carry the order n are all
\* aggregated under the key "order_n": each add_ocr_result of a successful
\* document appends exactly their scores, in order, to that entity, whose
\* order is n and whose name is never set.
C5_OrderSlots ==
    [][ (call'.op = "add_ocr_result" /\ Flagged(call'.docs[1]))
        => \A n \in PoolOrders :
              LET key == Some(OrderKey(n))
                  mine == OfOrder(call'.docs[1].scores, n)
              IN /\ mine # <<>> => key \in Keys(student_scores')
                 /\ key \in Keys(student_scores')
                       => /\ Entry(student_scores', key).order = Some(n)
                          /\ Entry(student_scores', key).name = None
                 /\ ScoresOf(student_scores', key)
                       = ScoresOf(student_scores, key) \o ScoreValues(mine)
      ]_vars

\* the slot of order 1 holds two scores that came from two documents
C5_Witness ==
    /\ call.op = "add_ocr_result"
    /\ Flagged(call.docs[1])
    /\ Len(OfOrder(call.docs[1].scores, 1)) = 1
    /\ Len(processed_files) = 2
    /\ Len(ScoresOf(student_scores, Some(OrderKey(1)))) = 2

\* the key an observation names: "order_n" on a masked sheet, else its student_id
NamedKey(o) == IF IsPrivacy(o) THEN Some(OrderKey(o.order[1])) ELSE o.student_id

\* C6: an observation with neither student_id nor order is rejected, with or
\* without a roster: it creates no entity and its score is appended nowhere.
C6_NoIdentityRejected ==
    [][ (/\ call'.op = "add_ocr_result"
         /\ call'.scores_only = None
         /\ Flagged(call'.docs[1]))
        => LET scores == call'.docs[1].scores
               usable == { i \in DOMAIN scores : ~NoIdentity(scores[i]) }
           IN /\ Keys(student_scores')
                    \subseteq Keys(student_scores) \cup { NamedKey(scores[i]) : i \in usable }
              /\ SumLen(student_scores') - SumLen(student_scores) <= Cardinality(usable)
      ]_vars

\* whether add_ocr_result takes only the scores of listed students
RosterMode(hml, scores_only) == hml /\ scores_only # Some(FALSE)

\* the scores that the observations resolving to key contribute, in order
Contribution(scores, key, known, roster_mode) ==
    LET Test(o) == /\ NamedKey(o) = key
                   /\ (roster_mode /\ ~IsPrivacy(o)) => key \in known
    IN ScoreValues(SelectSeq(scores, Test))

\* C7: an observation without usable identity in a successful document does
\* not stop add_ocr_result: the call returns True, the document is recorded in
\* processed_files and every other observation of the document, before and
\* after it, is merged into its entity.
C7_MergeContinues ==
    [][ (/\ call'.op = "add_ocr_result"
         /\ Flagged(call'.docs[1])
         /\ \E i \in DOMAIN call'.docs[1].scores : NoIdentity(call'.docs[1].scores[i]))
        => LET scores == call'.docs[1].scores
               mode == RosterMode(has_master_list, call'.scores_only)
           IN /\ call'.ret = Returned(TRUE)
              /\ processed_files' = Append(processed_files, call'.docs[1].file_name)
              /\ \A i \in DOMAIN scores :
                    LET key == NamedKey(scores[i])
                    IN key # None
                          => ScoresOf(student_scores', key)
                                = ScoresOf(student_scores, key)
                                  \o Contribution(scores, key, Keys(student_scores), mode)
      ]_vars

\* a document of three observations, the second without identity, the first
\* and the third merged
C7_Witness ==
    /\ call.op = "add_ocr_result"
    /\ Flagged(call.docs[1])
    /\ Len(call.docs[1].scores) = 3
    /\ NoIdentity(call.docs[1].scores[2])
    /\ call.docs[1].scores[1].student_id = Some("s1")
    /\ IsPrivacy(call.docs[1].scores[3])
    /\ ScoresOf(student_scores, Some("s1")) # <<>>
    /\ ScoresOf(student_scores, Some(OrderKey(1))) # <<>>
    /\ call.docs[1].file_name = processed_files[Len(processed_files)]

\* the observations of the successful documents of a list, in list order
RECURSIVE FlatScores(_)
FlatScores(docs) ==
    IF docs = <<>> THEN <<>>
    ELSE (IF Flagged(Head(docs)) THEN Head(docs).scores ELSE <<>>) \o FlatScores(Tail(docs))

\* C8: batch_add_results(L) appends to each entity exactly the scores (nulls
\* included) of the observations that resolve to it, ordered by the position
\* of their document in L and then by their position in the document; an
\* entity gets nothing from a document without an observation for it, and the
\* entities are the former ones plus those that got a score.
C8_BatchOrder ==
    [][ call'.op = "batch_add_results"
        => LET flat == FlatScores(call'.docs)
               known == Keys(student_scores)
               named == { NamedKey(flat[i]) : i \in DOMAIN flat }
           IN /\ \A key \in known \cup named \cup Keys(student_scores') :
                    ScoresOf(student_scores', key)
                       = ScoresOf(student_scores, key)
                         \o Contribution(flat, key, known, has_master_list)
              /\ Keys(student_scores')
                    = known \cup { key \in named :
                                     Contribution(flat, key, known, has_master_list) # <<>> }
      ]_vars

\* a batch of two successful documents: s1 scored 7 by the first and left
\* illegible by the second, s3 scored by one of them only
C8_Witness ==
    /\ call.op = "batch_add_results"
    /\ Len(call.docs) = 2
    /\ Flagged(call.docs[1]) /\ Flagged(call.docs[2])
    /\ Len(call.docs[1].scores) = 2
    /\ ScoresOf(student_scores, Some("s1")) = <<Some(7), None>>
    /\ Len(ScoresOf(student_scores, Some("s3"))) = 1
    /\ Len(processed_files) = 2

\* C9: batch_add_results(L), clear(), batch_add_results(L) leaves the same
\* entities with the same scores as one batch_add_results(L) on a freshly
\* constructed aggregator of the same configuration, roster or not.
C9_ReplayEqualsFresh ==
    replay.phase = 3
        => student_scores
              = BatchAddResults(Construct(master_list), replay.docs).self.student_scores

\* C10: get_aggregated_data changes neither the entities nor processed_files,
\* and called twice in a row with the same sort_by_order it gives the same
\* outcome both times (the same list, in the same order).
C10_SnapshotRepeats ==
    [][ call'.op = "get_aggregated_data"
        => /\ student_scores' = student_scores
           /\ processed_files' = processed_files
           /\ has_master_list' = has_master_list
           /\ call'.again => call'.ret = call.ret
      ]_vars

\* a second get_aggregated_data(sort_by_order=True) in a row returned a list
\* whose order is not the insertion order
C10_Witness ==
    /\ call.op = "get_aggregated_data"
    /\ call.again
    /\ call.sort_by_order
    /\ call.ret.raised = None
    /\ Len(call.ret.value) >= 2
    /\ call.ret.value # ToList(student_scores)

\* C11: get_aggregated_data(sort_by_order=True) on entities that all have an
\* order returns a list, also when entities share an order; a returned list
\* holds every entity exactly once, as the aggregator holds it, in
\* non-decreasing order of the order field, and entities of equal order stand
\* in the order in which they were created.
C11_SortedStable ==
    [][ (call'.op = "get_aggregated_data" /\ call'.sort_by_order)
        => LET ss == student_scores
               data == call'.ret.value
           IN /\ (\A i \in DOMAIN ss : ss[i].order # None) => call'.ret.raised = None
              /\ call'.ret.raised = None
                    => /\ Len(data) = Len(ss)
                       /\ \A i \in DOMAIN ss : \E j \in DOMAIN data : data[j] = ss[i]
                       /\ \A i, j \in DOMAIN data :
                             i < j => /\ data[i].order[1] <= data[j].order[1]
                                      /\ data[i].order = data[j].order
                                            => IndexOf(ss, data[i].student_id)
                                                  < IndexOf(ss, data[j].student_id)
      ]_vars

\* a sorted list was returned in which two entities share an order and the
\* later-created one of them was moved in front of an entity of greater order
C11_Witness ==
    /\ call.op = "get_aggregated_data"
    /\ call.sort_by_order
    /\ call.ret.raised = None
    /\ Len(call.ret.value) >= 3
    /\ \E i, j \in DOMAIN call.ret.value :
          i < j /\ call.ret.value[i].order = call.ret.value[j].order
    /\ call.ret.value # ToList(student_scores)

\* C12: a list returned by get_aggregated_data is an immutable snapshot: no
\* later add_ocr_result, batch_add_results or clear changes the scores, order
\* or name of an entity in the list already returned.
C12_SnapshotImmutable == snapshot.held => snapshot.now = snapshot.taken

\* C13: after any sequence of add_ocr_result calls, whatever the documents
\* and observations were, get_aggregated_data(sort_by_order=True) and
\* get_statistics both return a result without raising.
C13_QueriesNeverRaise ==
    /\ GetAggregatedData(Self, TRUE).ret.raised = None
    /\ GetStatistics(Self).ret.raised = None

\* C14: students_with_all_scores returned by get_statistics is the number of
\* entities whose scores list is as long as the number of successfully merged
\* documents (the documents recorded in processed_files).
C14_StudentsWithAllScores ==
    call.op = "get_statistics"
        => call.ret.value.students_with_all_scores
              = Cardinality({ i \in DOMAIN student_scores :
                                Len(student_scores[i].scores) = Len(processed_files) })

\* statistics taken after two merged documents: one entity was scored by
\* both, another by one of them only
C14_Witness ==
    /\ call.op = "get_statistics"
    /\ Len(processed_files) = 2
    /\ call.ret.value.total_files = 2
    /\ call.ret.value.students_with_all_scores = 1
    /\ \E i \in DOMAIN student_scores : Len(student_scores[i].scores) = 1

\* C15: whenever no document is merged (a fresh aggregator with or without a
\* roster, only failed documents offered, or just after clear) get_statistics
\* returns total_students, total_files, avg_scores_per_student and
\* students_with_all_scores all 0 and does not raise.
C15_ZeroStatistics ==
    processed_files = <<>>
        => LET r == GetStatistics(Self).ret
           IN /\ r.raised = None
              /\ r.value.total_students = 0
              /\ r.value.total_files = 0
              /\ r.value.avg_scores_per_student = 0
              /\ r.value.students_with_all_scores = 0

\* the file names of the successful documents of a list, in list order
RECURSIVE GoodNames(_)
GoodNames(docs) ==
    IF docs = <<>> THEN <<>>
    ELSE (IF Flagged(Head(docs)) THEN <<Head(docs).file_name>> ELSE <<>>)
            \o GoodNames(Tail(docs))

\* C16: between clear calls processed_files only grows at its end:
\* add_ocr_result appends the file_name of a successful document exactly once
\* and nothing for a failed one, and batch_add_results(L) appends the names of
\* the successful documents of L, in order, and returns their number.
C16_LogAppendOnly ==
    [][ /\ call'.op = "add_ocr_result"
            => /\ processed_files' = processed_files \o GoodNames(call'.docs)
               /\ call'.ret = Returned(Flagged(call'.docs[1]))
        /\ call'.op = "batch_add_results"
            => /\ processed_files' = processed_files \o GoodNames(call'.docs)
               /\ call'.ret = Returned(Len(GoodNames(call'.docs)))
               /\ call'.ret = Returned(Len(processed_files') - Len(processed_files))
        /\ call'.op # "clear" => IsPrefix(processed_files, processed_files')
      ]_vars

\* a batch of a failed and a successful document returned 1 and recorded the
\* name of the successful document only
C16_Witness ==
    /\ call.op = "batch_add_results"
    /\ Len(call.docs) = 2
    /\ ~Flagged(call.docs[1])
    /\ Flagged(call.docs[2])
    /\ call.ret = Returned(1)
    /\ processed_files = <<call.docs[2].file_name>>

Min(scores) == CHOOSE x \in { scores[i] : i \in DOMAIN scores } :
                   \A i \in DOMAIN scores : x <= scores[i]

Max(scores) == CHOOSE x \in { scores[i] : i \in DOMAIN scores } :
                   \A i \in DOMAIN scores : x >= scores[i]

RECURSIVE RemoveOne(_, _)
RemoveOne(scores, x) ==
    IF scores = <<>> THEN <<>>
    ELSE IF Head(scores) = x THEN Tail(scores)
         ELSE <<Head(scores)>> \o RemoveOne(Tail(scores), x)

\* scores without its t smallest and its t largest elements (2t < Len(scores))
RECURSIVE DropExtremes(_, _)
DropExtremes(scores, t) ==
    IF t = 0 THEN scores
    ELSE DropExtremes(RemoveOne(RemoveOne(scores, Min(scores)), Max(scores)), t - 1)

\* floor(n * p / q)
Floor(n, p, q) == CHOOSE t \in 0..(n * p) : t * q <= n * p /\ n * p < (t + 1) * q

\* C18: calculate_trimmed_mean(S, f) is 0.0 for the empty S; otherwise, with
\* t = floor(n*f), it is the mean of S without its t smallest and t largest
\* elements, or the mean of all of S when that leaves nothing (n <= 2t). With
\* f = 0.10 and n < 10 it is the plain mean of S.
C18_MatchesReference ==
    (script.fn = "calculate_trimmed_mean" /\ script.done)
        => LET S == script.scores
               n == Len(S)
               t == Floor(n, script.p, script.q)
               kept == IF n <= 2 * t THEN S ELSE DropExtremes(S, t)
           IN /\ n = 0 => script.ret.num = 0
              /\ n > 0 => script.ret.num * Len(kept) = Sum(kept) * script.ret.den
              /\ (n > 0 /\ script.p = 1 /\ script.q = 10 /\ n < 10)
                    => script.ret.num * n = Sum(S) * script.ret.den

\* three scores and a third trimmed from each end: the result is the middle
\* score, which is not the mean of the three
C18_Witness ==
    /\ script.fn = "calculate_trimmed_mean"
    /\ script.done
    /\ script.scores = <<10, 1, 6>>
    /\ script.p = 1 /\ script.q = 3
    /\ script.ret.num = 6 * script.ret.den

\* num/den rounded to the nearest integer, an exact half rounded up
RoundHalfUp(num, den) == (2 * num + den) \div (2 * den)

\* C19: the final score of a row is 10 times its trimmed mean rounded to the
\* nearest integer with exact halves rounded up: scores 6,6,6,7 (trimmed mean
\* 6.25) give 63.
C19_HalvesRoundUp ==
    (script.fn = "process_csv" /\ script.last # None)
        => LET r == script.last[1].result
           IN r.final_score = RoundHalfUp(10 * r.trimmed_mean.num, r.trimmed_mean.den)

\* the score that a cell holds, for the cells that hold one
MarkOf ==
    (<<"6">> :> 6) @@ (<<"7">> :> 7) @@ (<<" ", "7">> :> 7)

\* C20: of the cells from the fourth column onward process_csv hands to
\* calculate_trimmed_mean exactly the non-empty numeric ones, in order: each
\* cell read adds its number to the scores if it holds one and adds nothing
\* (never a 0) if it is empty, blank or not a number; the scores so collected
\* are what the trimmed mean is computed from, and score_count is their number.
C20_OnlyPresentScores ==
    [][ script.fn = "process_csv"
        => /\ (script.pc = "cells" /\ script'.pc = "cells")
                => script'.scores
                      = script.scores \o (IF script'.cell \in DOMAIN MarkOf
                                           THEN <<MarkOf[script'.cell]>> ELSE <<>>)
           /\ (script.pc = "next_row" /\ script'.pc = "cells") => script'.scores = <<>>
           /\ (script.pc = "cells" /\ script'.pc = "next_row")
                => LET l == script'.last[1]
                   IN /\ l.scores = script.scores
                      /\ l.result.score_count = Len(script.scores)
                      /\ l.result.trimmed_mean = CalculateTrimmedMean(script.scores, 1, 10)
      ]_vars

\* a row of four score cells of which two held a mark, the last one read
\* being empty: score_count is 2 and the mean is not pulled towards 0
C20_Witness ==
    /\ script.fn = "process_csv"
    /\ script.last # None
    /\ script.pc = "next_row"
    /\ script.cell = <<>>
    /\ script.last[1].ncells = 4
    /\ script.last[1].result.score_count = 2
    /\ script.last[1].result.trimmed_mean.num >= 6 * script.last[1].result.trimmed_mean.den

\* the largest number of scores that an entity of data has
Widest(data) ==
    CHOOSE m \in 0..10 : /\ \A i \in DOMAIN data : Len(data[i].scores) <= m
                         /\ \E i \in DOMAIN data : Len(data[i].scores) = m

\* C21: for a non-empty entity list CSVWriter.write emits a header and one
\* row per entity, in the order of the list, each of 3 + (largest number of
\* scores of an entity) columns; the cells behind an entity's own scores are
\* empty.
C21_RectangularTable ==
    (script.fn = "write" /\ script.done /\ script.data # <<>>)
        => /\ script.ret = script.writable
           /\ script.ret
                => LET rows == script.file[1]
                       data == script.data
                       width == 3 + Widest(data)
                   IN /\ Len(rows) = 1 + Len(data)
                      /\ \A r \in DOMAIN rows : Len(rows[r]) = width
                      /\ \A i \in DOMAIN data :
                            /\ rows[i + 1][1] = NumberCell(data[i].order)
                            /\ rows[i + 1][2] = TextCell(data[i].student_id)
                            /\ rows[i + 1][3] = TextCell(data[i].name)
                            /\ \A c \in (3 + Len(data[i].scores) + 1)..width :
                                  rows[i + 1][c] = ""

\* an entity of three scores and an entity of one were written: the second
\* row ends in two empty cells
C21_Witness ==
    /\ script.fn = "write"
    /\ script.done
    /\ script.ret
    /\ Len(script.data) = 2
    /\ Len(script.data[1].scores) = 3
    /\ Len(script.data[2].scores) = 1
    /\ Len(script.file[1][3]) = 6
    /\ script.file[1][3][5] = "" /\ script.file[1][3][6] = ""

\* C22: in the emitted table a null score is an empty cell at its own
\* position, so that the later scores of the entity keep their columns, and a
\* present score, a 0 included, is written as its value, never as an empty
\* cell.
C22_NullIsEmptyZeroIsNot ==
    (script.fn = "write" /\ script.done /\ script.ret)
        => \A i \in DOMAIN script.data :
              \A k \in DOMAIN script.data[i].scores :
                 LET s == script.data[i].scores[k]
                     cell == script.file[1][i + 1][3 + k]
                 IN /\ s = None => cell = ""
                    /\ s # None => cell = ToString(s[1]) /\ cell # ""

\* the entity with the scores 7, null, 0 was written: an empty cell between
\* "7" and "0"
C22_Witness ==
    /\ script.fn = "write"
    /\ script.done
    /\ script.ret
    /\ \E i \in DOMAIN script.data :
          /\ script.data[i].scores = <<Some(7), None, Some(0)>>
          /\ SubSeq(script.file[1][i + 1], 4, 6) = <<"7", "", "0">>

\* C23: CSVWriter.write called with an empty entity list writes nothing (the
\* output file is neither created nor modified), does not raise and returns
\* False.
C23_EmptyListWritesNothing ==
    (script.fn = "write" /\ script.done /\ script.data = <<>>)
        => /\ script.ret = FALSE
           /\ script.file = script.before

\* write was called with an empty list where a file of an earlier run exists
\* and the path is writable
C23_Witness ==
    /\ script.fn = "write"
    /\ script.done
    /\ script.data = <<>>
    /\ script.writable
    /\ script.before # None
    /\ script.file = script.before

\* C24: in every reachable state of a DataAggregator, total_files returned by
\* get_statistics is the number of documents recorded in processed_files.
C24_TotalFilesIsLogLength ==
    GetStatistics(Self).ret.value.total_files = Len(processed_files)

\* C25: every file that extract_from_pdf uploaded to the API is deleted from
\* it before the call returns, on the success path and on every failure
\* path: whenever no call is in progress the API holds none of the files.
C25_UploadDeletedBeforeReturn ==
    (script.fn = "batch_extract" /\ script.pc \in {"next", "done"})
        => script.remote = {}

\* C26: main runs its steps in the order scan, OCR, aggregate, write CSV and
\* returns 0 only if write_csv reported success; without an API key, without
\* a PDF file or with no successful OCR result it returns 1 and neither
\* aggregates nor attempts any CSV output; it returns 1 when the aggregation
\* yields no entity.
C26_MainOrderAndExitCode ==
    (script.fn = "main" /\ script.pc = "done")
        => LET did(step) == \E i \in DOMAIN script.steps : script.steps[i] = step
               stopped == /\ script.ret = Some(1)
                          /\ ~did("aggregate") /\ ~did("write")
                          /\ script.file = script.before
           IN /\ IsPrefix(script.steps, <<"scan", "ocr", "aggregate", "write">>)
              /\ script.ret = Some(0)
                    => script.written = Some(TRUE) /\ Len(script.steps) = 4
              /\ ~script.api_key => stopped /\ script.steps = <<>>
              /\ (script.api_key /\ script.pdf_files = 0) => stopped /\ ~did("ocr")
              /\ (did("ocr") /\ \A i \in DOMAIN script.ocr_results :
                                    ~Flagged(script.ocr_results[i])) => stopped
              /\ (did("aggregate") /\ script.data = <<>>) => script.ret = Some(1)

\* a run over two PDF files, one of them failed, that wrote two entities and
\* returned 0
C26_Witness ==
    /\ script.fn = "main"
    /\ script.pc = "done"
    /\ script.ret = Some(0)
    /\ script.steps = <<"scan", "ocr", "aggregate", "write">>
    /\ script.pdf_files = 2
    /\ \E i \in DOMAIN script.ocr_results : ~Flagged(script.ocr_results[i])
    /\ Len(script.data) = 2
    /\ script.file # None /\ Len(script.file[1]) = 3

=============================================================================
